---- MODULE Spec2Model ----
(***************************************************************************)
(* Model of http2test (src/main.go): a request file is parsed once by      *)
(* ReadHTTPFile, then main sends the request *retry times, writing one     *)
(* report per attempt with GenerateReport and sleeping *sleep seconds      *)
(* after every attempt.                                                    *)
(*                                                                         *)
(* A Go string is modelled as a sequence of one-character strings, so      *)
(* that strings.SplitN and strings.Join are computed, not assumed.         *)
(***************************************************************************)
EXTENDS Integers, Sequences, FiniteSets, TLC

VARIABLES
    flags,      \* the command line: [source, output, retry, sleep]
    file,       \* what os.Open(*source) finds: NoFile or [lines, scanErr]
    pc,         \* position of main
    retry,      \* *retry as the loop reads it
    sleep,      \* *sleep as the loop reads it
    i,          \* the loop variable of main
    reqData,    \* the RequestData returned by ReadHTTPFile
    readErr,    \* the error returned by ReadHTTPFile ("" for nil)
    response,   \* the *http.Response between SendRequest and GenerateReport
    bodies,     \* one entry per response received: its body stream
    disk,       \* report files: name -> content
    now,        \* time.Now().Unix()
    stdout,     \* what fmt.Println printed
    trace       \* the calls main made, in order

vars == <<flags, file, pc, retry, sleep, i, reqData, readErr, response,
          bodies, disk, now, stdout, trace>>

-----------------------------------------------------------------------------
(* Bounds of the model. *)

MaxRetry == 3   \* largest -retry tried
MaxSleep == 1   \* largest -sleep tried
MaxLines == 4   \* longest request file parsed, in lines
StartTime == 9  \* the Unix second at which a run starts

-----------------------------------------------------------------------------
(* Go strings and the strings package. *)

SP == " "
NL == "\n"

\* s[from..] as Go slices it (from is a 1-based index here).
Tail_(s, from) == SubSeq(s, from, Len(s))

\* strings.HasPrefix(Tail_(s, at), sep)
HasAt(s, sep, at) ==
    /\ at + Len(sep) - 1 <= Len(s)
    /\ SubSeq(s, at, at + Len(sep) - 1) = sep

\* strings.Index(s, sep): the 1-based index of the first occurrence, 0 if none.
Index(s, sep) ==
    LET hits == {at \in 1..Len(s) : HasAt(s, sep, at)}
    IN  IF hits = {} THEN 0
        ELSE CHOOSE at \in hits : \A other \in hits : at <= other

\* strings.SplitN(s, sep, 2) for a non-empty sep.
SplitN2(s, sep) ==
    LET at == Index(s, sep)
    IN  IF at = 0 THEN <<s>>
        ELSE <<SubSeq(s, 1, at - 1), Tail_(s, at + Len(sep))>>

RECURSIVE Join(_, _)
\* strings.Join(elems, sep)
Join(elems, sep) ==
    IF Len(elems) = 0 THEN <<>>
    ELSE IF Len(elems) = 1 THEN elems[1]
    ELSE elems[1] \o sep \o Join(Tail(elems), sep)

-----------------------------------------------------------------------------
(* ReadHTTPFile *)

NoFile == [lines |-> <<>>, scanErr |-> FALSE, missing |-> TRUE]

\* RequestData{} / RequestData{Headers: make(map[string]string)}
EmptyRequestData == [Method |-> <<>>, URL |-> <<>>, Headers |-> <<>>, Body |-> <<>>]

\* reqData.Headers[k] = v
MapSet(m, k, v) == [x \in (DOMAIN m) \cup {k} |-> IF x = k THEN v ELSE m[x]]

\* The first scanner.Scan(): the state of the parse after the request line.
\* pos is the number of lines the scanner has delivered.
ReadRequestLine(lines) ==
    IF Len(lines) >= 1
    THEN LET parts == SplitN2(lines[1], <<SP>>)
         IN  IF Len(parts) # 2
             THEN [err |-> "invalid request line", pos |-> 1, data |-> EmptyRequestData]
             ELSE [err |-> "", pos |-> 1,
                   data |-> [EmptyRequestData EXCEPT !.Method = parts[1], !.URL = parts[2]]]
    ELSE [err |-> "", pos |-> 0, data |-> EmptyRequestData]

\* An empty line ends the header loop.
EndsHeaders(line) == line = <<>>

\* A name already stored keeps its first value.
HeaderLine_FirstWins(headers, line) ==
    LET parts == SplitN2(line, <<":", SP>>)
    IN  IF Len(parts) # 2 \/ parts[1] \in DOMAIN headers THEN headers
        ELSE MapSet(headers, parts[1], parts[2])

\* One header line: stored when it splits on ": ", skipped otherwise.
HeaderLine(headers, line) ==
    LET parts == SplitN2(line, <<":", SP>>)
    IN  IF Len(parts) # 2 THEN headers ELSE MapSet(headers, parts[1], parts[2])

RECURSIVE ReadHeaders(_, _, _)
\* The header loop, from the state after pos lines were delivered.
ReadHeaders(lines, pos, headers) ==
    IF pos >= Len(lines) THEN [pos |-> pos, headers |-> headers]
    ELSE IF EndsHeaders(lines[pos + 1]) THEN [pos |-> pos + 1, headers |-> headers]
    ELSE ReadHeaders(lines, pos + 1, HeaderLine(headers, lines[pos + 1]))

\* The body loop dropping empty lines.
ReadBodyLines_SkipBlank(lines, pos) ==
    SelectSeq(SubSeq(lines, pos + 1, Len(lines)), LAMBDA l : l # <<>>)

\* The body loop: every line the scanner still delivers.
ReadBodyLines(lines, pos) == SubSeq(lines, pos + 1, Len(lines))

\* ReadHTTPFile(filePath) on the file f: [err, data].
ReadHTTPFile(f) ==
    IF f.missing THEN [err |-> "open", data |-> EmptyRequestData]
    ELSE LET first == ReadRequestLine(f.lines)
         IN  IF first.err # "" THEN [err |-> first.err, data |-> EmptyRequestData]
             ELSE LET hdr  == ReadHeaders(f.lines, first.pos, first.data.Headers)
                      body == Join(ReadBodyLines(f.lines, hdr.pos), <<NL>>)
                  IN  IF f.scanErr THEN [err |-> "scan", data |-> EmptyRequestData]
                      ELSE [err |-> "",
                            data |-> [first.data EXCEPT !.Headers = hdr.headers,
                                                        !.Body = body]]

-----------------------------------------------------------------------------
(* main: flags and defaults *)

defaultRetry == 1
defaultSleep == 0

\* The default forgotten: -retry=0 stays 0.
EffectiveRetry_NoDefault(r) == r

\* if *retry == 0 { retry = &defaultRetry }
EffectiveRetry(r) == IF r = 0 THEN defaultRetry ELSE r

\* if *sleep == 0 { sleep = &defaultSleep }
EffectiveSleep(s) == IF s = 0 THEN defaultSleep ELSE s

\* *source == "" || *output == ""
UsageError(f) == f.source = <<>> \/ f.output = <<>>

\* The loop condition off by one.
LoopCond_OffByOne(idx, r) == idx <= r

\* i < *retry
LoopCond(idx, r) == idx < r

\* A failed SendRequest skips the report but not the rest of the loop.
PcAfterSend_Continue(err) == IF err # "" THEN "sleep" ELSE "report"

\* main after SendRequest: return on an error, GenerateReport otherwise.
PcAfterSend(err) == IF err # "" THEN "done" ELSE "report"

\* A failed GenerateReport does not end the run.
PcAfterReport_SleepOnError(err) == "sleep"

\* main after GenerateReport: return on an error, time.Sleep otherwise.
PcAfterReport(err) == IF err # "" THEN "done" ELSE "sleep"

\* time.Sleep(d) returns at once for d <= 0.
SleepSeconds(s) == IF s > 0 THEN s ELSE 0

-----------------------------------------------------------------------------
(* SendRequest *)

StatusCodes == {200, 500}

\* response.Status
StatusText(code) == IF code = 200 THEN "200 OK" ELSE "500 Internal Server Error"

\* The ways one SendRequest call can end: http.NewRequest fails, client.Do
\* fails, or a response with some status code arrives.  An empty URL has no
\* scheme, so client.Do cannot succeed on it.
SendOutcomes(data) ==
    IF data.URL = <<>> THEN {[err |-> "Do", code |-> 0]}
    ELSE {[err |-> "NewRequest", code |-> 0], [err |-> "Do", code |-> 0]}
         \cup {[err |-> "", code |-> c] : c \in StatusCodes}

\* The body every response carries.
ResponseBytes == <<"o", "k">>

\* resp.Body as client.Do hands it over: unread and open.
FreshBody == [drained |-> FALSE, closed |-> FALSE]

NoResponse == [StatusCode |-> 0, Status |-> "", Body |-> 0]

-----------------------------------------------------------------------------
(* GenerateReport *)

Digits == <<"0", "1", "2", "3", "4", "5", "6", "7", "8", "9">>

RECURSIVE Itoa(_)
\* fmt.Sprintf("%v", n) for n >= 0
Itoa(n) == IF n < 10 THEN <<Digits[n + 1]>> ELSE Itoa(n \div 10) \o <<Digits[(n % 10) + 1]>>

\* outputPath + "|" + now + "-status:" + code + ".txt"
ReportName(outputPath, ts, code) ==
    outputPath \o <<"|">> \o Itoa(ts)
        \o <<"-", "s", "t", "a", "t", "u", "s", ":">> \o Itoa(code)
        \o <<".", "t", "x", "t">>

\* The orders in which range reqData.Headers may visit the keys.
RangeOrders(m) ==
    {o \in [1..Cardinality(DOMAIN m) -> DOMAIN m] :
        \A a, b \in 1..Cardinality(DOMAIN m) : a # b => o[a] # o[b]}

\* The points at which GenerateReport can fail, in program order; "" is success.
\* k is the header whose WriteString fails.
ReportFailures(data) ==
    {[at |-> a, k |-> 0] : a \in {"", "create", "method", "headersTitle", "body", "readAll", "response"}}
    \cup {[at |-> "header", k |-> k] : k \in 1..Cardinality(DOMAIN data.Headers)}

\* Position of each failure point in the code.
Stage(fail) ==
    CASE fail.at = "create"       -> 0
      [] fail.at = "method"       -> 1
      [] fail.at = "headersTitle" -> 2
      [] fail.at = "header"       -> 3
      [] fail.at = "body"         -> 4
      [] fail.at = "readAll"      -> 5
      [] fail.at = "response"     -> 6
      [] OTHER                    -> 7

\* The chunks file.WriteString receives, each with the stage that writes it.
ReportChunks(data, resp, order) ==
    <<[stage |-> 1, k |-> 0, text |-> <<"Request Method: ", data.Method, "\nRequest URL: ", data.URL, "\n\n">>],
      [stage |-> 2, k |-> 0, text |-> <<"Request Headers:\n">>]>>
    \o [k \in 1..Len(order) |->
          [stage |-> 3, k |-> k, text |-> <<order[k], ": ", data.Headers[order[k]], "\n">>]]
    \o <<[stage |-> 4, k |-> 0, text |-> <<"\nRequest Body:\n", data.Body, "\n\n">>],
         [stage |-> 6, k |-> 0, text |-> <<"Response Status: ", resp.Status, "\nResponse Body:\n", ResponseBytes, "\n">>]>>

\* Whether a chunk is written before GenerateReport fails at fail.
Written(chunk, fail) ==
    \/ chunk.stage < Stage(fail)
    \/ chunk.stage = 3 /\ Stage(fail) = 3 /\ chunk.k < fail.k

\* What io.ReadAll and response.Body.Close leave of the body stream.
BodyAfterReport(body, fail) ==
    IF Stage(fail) > 5 THEN [drained |-> TRUE, closed |-> TRUE] ELSE body

\* GenerateReport(outputPath, reqData, response): [err, disk, body, name].
GenerateReport(d, outputPath, data, resp, body, ts, order, fail) ==
    LET name    == ReportName(outputPath, ts, resp.StatusCode)
        chunks  == ReportChunks(data, resp, order)
        content == SelectSeq(chunks, LAMBDA c : Written(c, fail))
    IN  [err  |-> fail.at,
         name |-> name,
         body |-> BodyAfterReport(body, fail),
         disk |-> IF fail.at = "create" THEN d
                  ELSE [n \in (DOMAIN d) \cup {name} |->
                          IF n = name THEN [c \in 1..Len(content) |-> content[c].text]
                          ELSE d[n]]]

-----------------------------------------------------------------------------
(* The run of main *)

Event(op, iter, ok, name, ts, code, secs) ==
    [op |-> op, iter |-> iter, ok |-> ok, name |-> name, ts |-> ts, code |-> code, secs |-> secs]

\* The request files the driver is run on.
GoodLines == << <<"G", SP, "u">>, <<"A", ":", SP, "1">>, <<"B", ":", SP, "2">>, <<>>, <<"x">> >>

DriverFiles ==
    { NoFile,
      [lines |-> <<>>, scanErr |-> FALSE, missing |-> FALSE],
      [lines |-> << <<"G">> >>, scanErr |-> FALSE, missing |-> FALSE],
      [lines |-> <<GoodLines[1]>>, scanErr |-> TRUE, missing |-> FALSE],
      [lines |-> GoodLines, scanErr |-> FALSE, missing |-> FALSE] }

FlagSets ==
    [source : {<<>>, <<"r">>}, output : {<<>>, <<"o">>},
     retry : -1..MaxRetry, sleep : -1..MaxSleep]

Init ==
    /\ flags \in FlagSets
    /\ file \in DriverFiles
    /\ pc = "start"
    /\ retry = flags.retry
    /\ sleep = flags.sleep
    /\ i = 0
    /\ reqData = EmptyRequestData
    /\ readErr = ""
    /\ response = NoResponse
    /\ bodies = <<>>
    /\ disk = <<>>
    /\ now = StartTime
    /\ stdout = <<>>
    /\ trace = <<>>

\* main, lines 157-160: the usage message.
Usage ==
    /\ pc = "start"
    /\ UsageError(flags)
    /\ stdout' = Append(stdout, "Usage")
    /\ pc' = "done"
    /\ UNCHANGED <<flags, file, retry, sleep, i, reqData, readErr, response,
                   bodies, disk, now, trace>>

\* main, lines 162-168: the defaults.
Defaults ==
    /\ pc = "start"
    /\ ~UsageError(flags)
    /\ retry' = EffectiveRetry(retry)
    /\ sleep' = EffectiveSleep(sleep)
    /\ pc' = "read"
    /\ UNCHANGED <<flags, file, i, reqData, readErr, response, bodies, disk,
                   now, stdout, trace>>

\* main, lines 170-175: ReadHTTPFile(*source).
ReadSource ==
    /\ pc = "read"
    /\ LET r == ReadHTTPFile(file)
       IN  /\ reqData' = r.data
           /\ readErr' = r.err
           /\ stdout' = IF r.err # "" THEN Append(stdout, r.err) ELSE stdout
           /\ pc' = IF r.err # "" THEN "done" ELSE "loop"
           /\ trace' = Append(trace, Event("parse", 0, r.err = "", <<>>, 0, 0, 0))
    /\ i' = 0
    /\ UNCHANGED <<flags, file, retry, sleep, response, bodies, disk, now>>

\* main, line 177: the loop condition.
LoopTest ==
    /\ pc = "loop"
    /\ pc' = IF LoopCond(i, retry) THEN "send" ELSE "done"
    /\ UNCHANGED <<flags, file, retry, sleep, i, reqData, readErr, response,
                   bodies, disk, now, stdout, trace>>

\* main, lines 178-183: SendRequest(reqData, *retry, *sleep), which takes
\* dt seconds.
SendRequest ==
    /\ pc = "send"
    /\ \E out \in SendOutcomes(reqData), dt \in 0..1 :
          /\ now' = now + dt
          /\ pc' = PcAfterSend(out.err)
          /\ trace' = Append(trace, Event("execute", i + 1, out.err = "", <<>>, 0, out.code, 0))
          /\ IF out.err # ""
             THEN /\ stdout' = Append(stdout, out.err)
                  /\ UNCHANGED <<response, bodies>>
             ELSE /\ bodies' = Append(bodies, FreshBody)
                  /\ response' = [StatusCode |-> out.code, Status |-> StatusText(out.code),
                                  Body |-> Len(bodies) + 1]
                  /\ UNCHANGED stdout
    /\ UNCHANGED <<flags, file, retry, sleep, i, reqData, readErr, disk>>

\* main, lines 185-190: GenerateReport(*output, reqData, response).
Report ==
    /\ pc = "report"
    /\ \E fail \in ReportFailures(reqData), order \in RangeOrders(reqData.Headers) :
          LET r == GenerateReport(disk, flags.output, reqData, response,
                                  bodies[response.Body], now, order, fail)
          IN  /\ disk' = r.disk
              /\ bodies' = [bodies EXCEPT ![response.Body] = r.body]
              /\ pc' = PcAfterReport(r.err)
              /\ stdout' = IF r.err # "" THEN Append(stdout, r.err) ELSE stdout
              /\ trace' = Append(trace, Event("report", i + 1, r.err = "", r.name, now,
                                              response.StatusCode, 0))
    /\ UNCHANGED <<flags, file, retry, sleep, i, reqData, readErr, response, now>>

\* main, lines 191 and 177: time.Sleep, then i++.
Sleep ==
    /\ pc = "sleep"
    /\ now' = now + SleepSeconds(sleep)
    /\ i' = i + 1
    /\ pc' = "loop"
    /\ trace' = Append(trace, Event("sleep", i + 1, TRUE, <<>>, 0, 0, sleep))
    /\ UNCHANGED <<flags, file, retry, sleep, reqData, readErr, response,
                   bodies, disk, stdout>>

Next == Usage \/ Defaults \/ ReadSource \/ LoopTest \/ SendRequest \/ Report \/ Sleep

Spec == Init /\ [][Next]_vars

-----------------------------------------------------------------------------
(* ReadHTTPFile alone, on every request file of at most MaxLines lines. *)

SampleLines ==
    { <<>>,
      <<"G", SP, "u">>,
      <<"G", SP, "u", SP, "u">>,
      <<"G">>,
      <<SP, "u">>,
      <<"G", SP>>,
      <<"A", ":", SP, "1">>,
      <<"A", ":", SP, "2">>,
      <<"B", ":", SP, "1">>,
      <<"A", ":", SP, "1", ":", SP, "2">>,
      <<"A", ":", "1">> }

ParseFiles ==
    {[lines |-> l, scanErr |-> e, missing |-> FALSE] :
        l \in UNION {[1..n -> SampleLines] : n \in 0..MaxLines}, e \in BOOLEAN}

InitParse ==
    /\ flags = [source |-> <<"r">>, output |-> <<"o">>, retry |-> 1, sleep |-> 0]
    /\ file \in ParseFiles
    /\ pc = "read"
    /\ retry = 1
    /\ sleep = 0
    /\ i = 0
    /\ reqData = EmptyRequestData
    /\ readErr = ""
    /\ response = NoResponse
    /\ bodies = <<>>
    /\ disk = <<>>
    /\ now = StartTime
    /\ stdout = <<>>
    /\ trace = <<>>

NextParse == ReadSource

SpecParse == InitParse /\ [][NextParse]_vars

-----------------------------------------------------------------------------
(* Reading the trace *)

Events(op) == {j \in 1..Len(trace) : trace[j].op = op}

Executes == Cardinality(Events("execute"))

Reports == Cardinality(Events("report"))

ReportsWritten == Cardinality({j \in Events("report") : trace[j].ok})

Sleeps == Cardinality(Events("sleep"))

Failed(j) == trace[j].op \in {"execute", "report"} /\ ~trace[j].ok

NoFailure == \A j \in 1..Len(trace) : trace[j].ok

-----------------------------------------------------------------------------
(* C1 *)

\* C1: a failed SendRequest in iteration k ends the run with exactly k
\* executes, k-1 reports and k-1 sleeps; a failed GenerateReport in iteration k
\* ends it with exactly k executes, k reports (the failed one last) and k-1
\* sleeps.  The failure is the last call the run makes.
FailureAbortsRun ==
    \A j \in 1..Len(trace) :
        Failed(j) =>
            /\ j = Len(trace)
            /\ pc = "done"
            /\ trace[j].iter \in 1..retry
            /\ Executes = trace[j].iter
            /\ Sleeps = trace[j].iter - 1
            /\ ReportsWritten = trace[j].iter - 1
            /\ Reports = IF trace[j].op = "execute" THEN trace[j].iter - 1 ELSE trace[j].iter
            /\ Cardinality(DOMAIN disk) <= trace[j].iter - (IF trace[j].op = "execute" THEN 1 ELSE 0)

\* The network call fails on iteration 2 of 3.
SendFailsInSecondIteration ==
    /\ retry = 3
    /\ Len(trace) > 0
    /\ trace[Len(trace)].op = "execute"
    /\ ~trace[Len(trace)].ok
    /\ trace[Len(trace)].iter = 2
    /\ pc = "done"

-----------------------------------------------------------------------------
(* C2 *)

\* The place of iteration k's calls in a trace without failures.
ExecuteAt(k) == 3 * k - 1
ReportAt(k) == 3 * k
SleepAt(k) == 3 * k + 1

\* C2: when nothing fails, a run with *retry = N >= 1 makes exactly N executes
\* and N reports, report k after execute k and before execute k+1, and ends;
\* the reports are N distinct files unless two iterations share both the
\* second and the status code.
SuccessfulRunShape ==
    /\ \A j \in Events("report") :
           /\ j > 1
           /\ trace[j - 1].op = "execute"
           /\ trace[j - 1].ok
           /\ trace[j - 1].iter = trace[j].iter
    /\ \A j \in Events("execute") :
           /\ trace[j].iter = Cardinality({l \in Events("execute") : l <= j})
           /\ trace[j].iter > 1 =>
                 \E l \in Events("report") :
                     l < j /\ trace[l].ok /\ trace[l].iter = trace[j].iter - 1
    /\ Executes <= (IF retry > 0 THEN retry ELSE 0)
    /\ (NoFailure /\ Sleeps = retry /\ retry >= 1) => (pc \in {"loop", "done"} /\ i = retry)
    /\ (pc = "done" /\ NoFailure /\ Len(trace) > 0 /\ retry >= 1) =>
           /\ Executes = retry
           /\ ReportsWritten = retry
           /\ Len(trace) = 1 + 3 * retry
           /\ \A k \in 1..retry :
                  /\ trace[ExecuteAt(k)].op = "execute" /\ trace[ExecuteAt(k)].iter = k
                  /\ trace[ReportAt(k)].op = "report" /\ trace[ReportAt(k)].iter = k
           /\ (\A a, b \in 1..retry :
                   a # b => \/ trace[ReportAt(a)].ts # trace[ReportAt(b)].ts
                            \/ trace[ReportAt(a)].code # trace[ReportAt(b)].code)
                  => Cardinality(DOMAIN disk) = retry

\* Three iterations succeeded and left three report files.
ThreeReportsWritten ==
    /\ pc = "done"
    /\ retry = 3
    /\ NoFailure
    /\ ReportsWritten = 3
    /\ Cardinality(DOMAIN disk) = 3

-----------------------------------------------------------------------------
(* C3 *)

\* C3: whatever integers -retry and -sleep are, the loop runs with
\* *retry >= 1 and *sleep >= 0, and a run that parsed its request file
\* makes at least one execute.
LoopParametersInRange ==
    /\ (pc \notin {"start"} /\ ~UsageError(flags)) => (retry >= 1 /\ sleep >= 0)
    /\ (pc = "done" /\ ~UsageError(flags) /\ readErr = "") => Executes >= 1

-----------------------------------------------------------------------------
(* C4 *)

\* The calls of a run of one iteration with a zero-second sleep.
OneIteration ==
    << <<"parse", 0, 0>>, <<"execute", 1, 0>>, <<"report", 1, 0>>, <<"sleep", 1, 0>> >>

Calls == [j \in 1..Len(trace) |-> <<trace[j].op, trace[j].iter, trace[j].secs>>]

\* C4: a run with -retry=0 -sleep=0 and a run with -retry=1 -sleep=0 make
\* the same calls, the ones the request file and the server alone decide:
\* parse, then one execute, one report and one zero-second sleep, cut short
\* only by the first call that fails.
ZeroFlagsRunOneIteration ==
    (flags.retry \in {0, 1} /\ flags.sleep = 0 /\ ~UsageError(flags)) =>
        /\ pc # "start" => (retry = 1 /\ sleep = 0)
        /\ Len(trace) <= 4
        /\ Calls = SubSeq(OneIteration, 1, Len(trace))
        /\ pc = "done" => /\ Len(trace) >= 1
                          /\ (Len(trace) < 4 => ~trace[Len(trace)].ok)

\* A run with -retry=0 -sleep=0 that went through its one iteration.
ZeroRetryRunCompleted ==
    /\ flags.retry = 0
    /\ flags.sleep = 0
    /\ pc = "done"
    /\ Len(trace) = 4

-----------------------------------------------------------------------------
(* C5 *)

\* The file starts with a line holding a space.
StartsWithRequestLine(f) ==
    /\ ~f.missing
    /\ Len(f.lines) >= 1
    /\ \E at \in 1..Len(f.lines[1]) : f.lines[1][at] = SP

\* C5: when the request file does not start with a line that splits into a
\* method and a URL, ReadHTTPFile fails, SendRequest is never called and no
\* report is written.
BadRequestLineStopsRun ==
    (pc \notin {"start", "read"} /\ ~UsageError(flags) /\ ~StartsWithRequestLine(file)) =>
        /\ readErr # ""
        /\ Executes = 0
        /\ Reports = 0
        /\ disk = <<>>

-----------------------------------------------------------------------------
(* C6 *)

\* C6: a RequestData that ReadHTTPFile returns without error has a non-empty
\* Method and a non-empty URL.
ParsedRequestNonEmpty ==
    (pc # "read" /\ readErr = "") => (reqData.Method # <<>> /\ reqData.URL # <<>>)

-----------------------------------------------------------------------------
(* C7 *)

\* The index of the first empty line, Len + 1 when there is none.
FirstBlank(lines) ==
    LET blanks == {k \in 1..Len(lines) : lines[k] = <<>>}
    IN  IF blanks = {} THEN Len(lines) + 1
        ELSE CHOOSE k \in blanks : \A other \in blanks : k <= other

\* Where the first ": " of a line starts, 0 when it has none.
SeparatorAt(line) ==
    LET seps == {p \in 1..(Len(line) - 1) : line[p] = ":" /\ line[p + 1] = SP}
    IN  IF seps = {} THEN 0
        ELSE CHOOSE p \in seps : \A other \in seps : p <= other

NameOf(line) == [p \in 1..(SeparatorAt(line) - 1) |-> line[p]]

ValueOf(line) == [p \in 1..(Len(line) - SeparatorAt(line) - 1) |-> line[p + SeparatorAt(line) + 1]]

\* The lines between the request line and the first empty line that hold ": ".
HeaderLines(lines) == {k \in 2..(FirstBlank(lines) - 1) : SeparatorAt(lines[k]) # 0}

\* C7: the Headers of a successful parse come from the lines before the
\* first empty line only: every such line with a ": " gives the name before
\* its first ": " and the value after it, lines without one are skipped, and
\* the last line of a name gives the name's value.
HeadersFromHeaderLines ==
    (pc # "read" /\ readErr = "" /\ Len(file.lines) >= 1) =>
        LET hl == HeaderLines(file.lines)
        IN  /\ DOMAIN reqData.Headers = {NameOf(file.lines[k]) : k \in hl}
            /\ \A k \in hl :
                   (\A later \in hl : later > k => NameOf(file.lines[later]) # NameOf(file.lines[k]))
                       => reqData.Headers[NameOf(file.lines[k])] = ValueOf(file.lines[k])

\* A skipped line, then a name given twice: the second value is stored.
DuplicateHeaderParsed ==
    /\ pc # "read"
    /\ readErr = ""
    /\ file.lines = << <<"G", SP, "u">>, <<"G">>, <<"A", ":", SP, "1">>, <<"A", ":", SP, "2">> >>
    /\ reqData.Headers = [n \in {<<"A">>} |-> <<"2">>]

-----------------------------------------------------------------------------
(* C8 *)

RECURSIVE Offset(_, _)
\* Where line k of ls starts in ls joined by one-character separators.
Offset(ls, k) == IF k = 1 THEN 0 ELSE Offset(ls, k - 1) + Len(ls[k - 1]) + 1

\* b is the lines ls, in order, with a newline between neighbours.
IsJoined(b, ls) ==
    IF Len(ls) = 0 THEN b = <<>>
    ELSE /\ Len(b) = Offset(ls, Len(ls)) + Len(ls[Len(ls)])
         /\ \A k \in 1..Len(ls) :
                /\ \A p \in 1..Len(ls[k]) : b[Offset(ls, k) + p] = ls[k][p]
                /\ k < Len(ls) => b[Offset(ls, k) + Len(ls[k]) + 1] = NL

\* C8: with a valid request line, the Body is the lines after the first
\* empty line joined by newlines, later empty lines included; it is empty
\* when that empty line is the last line or when there is none, and the
\* parse succeeds in both cases.
BodyFromLinesAfterBlank ==
    (pc # "read" /\ StartsWithRequestLine(file)) =>
        LET fb == FirstBlank(file.lines)
        IN  /\ ~file.scanErr => readErr = ""
            /\ readErr = "" =>
                  /\ IsJoined(reqData.Body, SubSeq(file.lines, fb + 1, Len(file.lines)))
                  /\ fb >= Len(file.lines) => reqData.Body = <<>>

\* A body whose last line is empty.
BodyWithTrailingBlankParsed ==
    /\ pc # "read"
    /\ readErr = ""
    /\ file.lines = << <<"G", SP, "u">>, <<>>, <<"A", ":", "1">>, <<>> >>
    /\ reqData.Body = <<"A", ":", "1", NL>>

-----------------------------------------------------------------------------
(* C9 *)

\* C9: once GenerateReport has returned, with or without an error, the
\* response body it was given is drained and closed: only the response that
\* GenerateReport has yet to see may be open.
ResponseBodiesClosed ==
    \A b \in 1..Len(bodies) :
        \/ pc = "report" /\ b = response.Body
        \/ bodies[b].drained /\ bodies[b].closed

-----------------------------------------------------------------------------
(* C10 *)

\* C10: main sleeps *sleep seconds once after every iteration whose execute
\* and report succeeded, the last one included, right after the report and
\* before the next execute, and never after a failure: the sleeps of a
\* finished run are as many as the reports written.
SleepAfterEveryReport ==
    /\ \A j \in Events("sleep") :
           /\ j > 1
           /\ trace[j - 1].op = "report"
           /\ trace[j - 1].ok
           /\ trace[j - 1].iter = trace[j].iter
           /\ trace[j].secs = sleep
    /\ \A j \in Events("report") :
           (trace[j].ok /\ j < Len(trace)) => trace[j + 1].op = "sleep"
    /\ \A j \in Events("execute") :
           trace[j].iter > 1 => (trace[j - 1].op = "sleep" /\ trace[j - 1].iter = trace[j].iter - 1)
    /\ Sleeps = ReportsWritten - (IF pc = "sleep" THEN 1 ELSE 0)
    /\ (pc = "done" /\ NoFailure /\ Len(trace) > 0 /\ retry >= 1) => Sleeps = retry

\* A finished run that slept one second after each of its three reports.
SleptAfterLastIteration ==
    /\ pc = "done"
    /\ sleep = 1
    /\ ReportsWritten = 3
    /\ Sleeps = 3
    /\ trace[Len(trace)].op = "sleep"

====
